---- MODULE Spec2Model ----
(***************************************************************************)
(* Syndrome-measurement benchmarks for the [[8,6,2]] and [[6,4,2]] codes.  *)
(*                                                                         *)
(* Four programs build the strategy circuits:                              *)
(*   DD8   (8,6,2)_code/(8,6,2)_DD.py        8 data, 4 ancilla, simulator   *)
(*   HW8   (8,6,2)_code/(8,6,2)_hardware.py  8 data, 2 ancilla, hardware    *)
(*   SIM6  simulations/(6,4,2)_sim_dd.py     6 data, 4 ancilla, simulator   *)
(*   HW6   six_four_two_code/six_four_two_v2.py 6 data, 2 ancilla, hardware *)
(*                                                                         *)
(* A circuit is a sequence of operations [kind, a, b]; its execution is    *)
(* modelled on a stabilizer tableau (all gates used are Clifford gates),   *)
(* a measurement whose outcome is not determined by the state being a      *)
(* nondeterministic choice of the bit.                                     *)
(***************************************************************************)
EXTENDS Integers, Sequences, FiniteSets, TLC

VARIABLES
    prog,       \* the program whose circuit is executed
    strat,      \* the strategy: "mid", "deferred" or "control"
    pc,         \* number of operations of the circuit already executed
    tab,        \* stabilizer tableau of the qubit registers
    c,          \* the classical register, c[0] and c[1]
    p,          \* noise level of the run, in units of 1/Den
    faults,     \* non-identity error terms drawn so far in this trial
    lastDraw,   \* error terms drawn after the last executed operation
    counts,     \* outcome table handed to postselection_rate
    rate,       \* what postselection_rate returned (or raised)
    sweep       \* state of run_benchmarks

vars == <<prog, strat, pc, tab, c, p, faults, lastDraw, counts, rate, sweep>>

Programs == {"DD8", "HW8", "SIM6", "HW6"}
Strategies == {"mid", "deferred", "control"}

(***************************************************************************)
(* Operation model                                                         *)
(***************************************************************************)
Op(kind, a, b) == [kind |-> kind, a |-> a, b |-> b]
H(q) == Op("h", q, -1)
X(q) == Op("x", q, -1)
Y(q) == Op("y", q, -1)
Z(q) == Op("z", q, -1)
CX(ctl, tgt) == Op("cx", ctl, tgt)
Measure(q, bit) == Op("measure", q, bit)
Reset(q) == Op("reset", q, -1)
Barrier == Op("barrier", -1, -1)

\* the qubits an operation acts on
OpQubits(op) ==
    CASE op.kind = "cx" -> {op.a, op.b}
      [] op.kind = "barrier" -> {}
      [] OTHER -> {op.a}

(***************************************************************************)
(* Registers: data qubits are 0..nd-1, ancilla k is qubit nd+k.            *)
(***************************************************************************)
prep_qubits(pr) ==
    CASE pr = "DD8" -> [nd |-> 8, na |-> 4]
      [] pr = "HW8" -> [nd |-> 8, na |-> 2]
      [] pr = "SIM6" -> [nd |-> 6, na |-> 4]
      [] pr = "HW6" -> [nd |-> 6, na |-> 2]

NumData(pr) == prep_qubits(pr).nd
NumQubits(pr) == prep_qubits(pr).nd + prep_qubits(pr).na
Anc(pr, k) == prep_qubits(pr).nd + k

\* the concatenation of the n sequences f[1], ..., f[n]
RECURSIVE Flatten(_, _)
Flatten(f, n) == IF n = 0 THEN <<>> ELSE Flatten(f, n - 1) \o f[n]

(***************************************************************************)
(* Circuit builder: fragments over a data register of n qubits             *)
(***************************************************************************)
\* the GHZ preparation with the Hadamard on data[0] left out
encode_logical_zero_noH(n) ==
    [i \in 1..(n - 1) |-> CX(0, i)]

\* GHZ preparation: H on data[0], CNOT from data[0] to every other qubit
encode_logical_zero(n) ==
    <<H(0)>> \o [i \in 1..(n - 1) |-> CX(0, i)]

\* DFS encoding: CNOT cascade, H on all, CNOT cascade, H on all
encode_dfs_logical_zero(n) ==
    [i \in 1..(n - 1) |-> CX(0, i)]
        \o [i \in 1..n |-> H(i - 1)]
        \o [i \in 1..(n - 1) |-> CX(0, i)]
        \o [i \in 1..n |-> H(i - 1)]

dynamical_decoupling(n) ==
    [i \in 1..n |-> X(i - 1)] \o <<Barrier>> \o [i \in 1..n |-> Y(i - 1)]

\* the operation with data[0] left out of the loop
leakage_elimination_operation_skipFirst(n) ==
    [i \in 1..(n - 1) |-> Z(i)]

leakage_elimination_operation(n) ==
    [i \in 1..n |-> Z(i - 1)]

\* the fragment with each ancilla reset before, not after, it is measured
stabilizer_measurements_resetFirst(n, anc0, anc1) ==
    [i \in 1..n |-> CX(i - 1, anc0)]
        \o <<Reset(anc0), Measure(anc0, 0)>>
        \o Flatten([i \in 1..n |-> <<H(i - 1), CX(i - 1, anc1), H(i - 1)>>], n)
        \o <<Reset(anc1), Measure(anc1, 1)>>

\* Z parity into anc0/bit 0, reset; X parity into anc1/bit 1, reset
stabilizer_measurements(n, anc0, anc1) ==
    [i \in 1..n |-> CX(i - 1, anc0)]
        \o <<Measure(anc0, 0), Reset(anc0)>>
        \o Flatten([i \in 1..n |-> <<H(i - 1), CX(i - 1, anc1), H(i - 1)>>], n)
        \o <<Measure(anc1, 1), Reset(anc1)>>

s1_meas(n, anc, cbit) ==
    [i \in 1..n |-> CX(i - 1, anc)] \o <<Measure(anc, cbit)>>

s2_meas(n, anc, cbit) ==
    Flatten([i \in 1..n |-> <<H(i - 1), CX(i - 1, anc), H(i - 1)>>], n)
        \o <<Measure(anc, cbit)>>

stab_measurements(n, anc0, anc1) ==
    s1_meas(n, anc0, 0) \o <<Reset(anc0)>> \o s2_meas(n, anc1, 1) \o <<Reset(anc1)>>

\* both parity checks interleaved per data qubit, both ancillas measured last
deferred_checks(n, anc0, anc1) ==
    Flatten([i \in 1..n |->
                <<CX(i - 1, anc0), H(i - 1), CX(i - 1, anc1), H(i - 1)>>], n)
        \o <<Measure(anc0, 0), Measure(anc1, 1)>>

(***************************************************************************)
(* Strategy assembler.  enc is the encoding fragment; each program uses    *)
(* its own (NativeEncoding).                                               *)
(***************************************************************************)
DD8_circuit_mid_circuit(enc) ==
    enc \o dynamical_decoupling(8) \o leakage_elimination_operation(8)
        \o <<Barrier>>
        \o stabilizer_measurements(8, Anc("DD8", 0), Anc("DD8", 1))
        \o dynamical_decoupling(8) \o leakage_elimination_operation(8)
        \o <<Barrier>>

DD8_circuit_deferred(enc) ==
    enc \o dynamical_decoupling(8) \o leakage_elimination_operation(8)
        \o <<Barrier>>
        \o deferred_checks(8, Anc("DD8", 0), Anc("DD8", 1))

DD8_circuit_control(enc) ==
    enc \o dynamical_decoupling(8) \o leakage_elimination_operation(8)
        \o <<Measure(0, 0)>>

HW8_circuit_mid_circuit(enc) ==
    enc \o leakage_elimination_operation(8) \o <<Barrier>>
        \o stabilizer_measurements(8, Anc("HW8", 0), Anc("HW8", 1))
        \o leakage_elimination_operation(8)

HW8_circuit_deferred(enc) ==
    enc \o deferred_checks(8, Anc("HW8", 0), Anc("HW8", 1))

HW8_circuit_control(enc) ==
    enc \o <<Measure(0, 0), Measure(1, 1)>>

\* simulation(shots, p_noise, do_reset): the mid-circuit strategy of SIM6
simulation(enc, do_reset) ==
    enc \o dynamical_decoupling(6) \o <<Barrier>>
        \o stab_measurements(6, Anc("SIM6", 0), Anc("SIM6", 1))
        \o dynamical_decoupling(6) \o <<Barrier>>
        \o (IF do_reset THEN [i \in 1..6 |-> Reset(i - 1)] \o enc ELSE <<>>)

SIM6_circuit_control(enc) ==
    enc \o dynamical_decoupling(6) \o <<Barrier>>
        \o deferred_checks(6, Anc("SIM6", 0), Anc("SIM6", 1))

circuit_deferred_measurement(enc) ==
    enc \o dynamical_decoupling(6) \o <<Barrier>>
        \o deferred_checks(6, Anc("SIM6", 0), Anc("SIM6", 1))

HW6_circuit_mid_circuit(enc) ==
    enc \o leakage_elimination_operation(6) \o <<Barrier>>
        \o stabilizer_measurements(6, Anc("HW6", 0), Anc("HW6", 1))
        \o leakage_elimination_operation(6)

HW6_circuit_deferred(enc) ==
    enc \o deferred_checks(6, Anc("HW6", 0), Anc("HW6", 1))

HW6_circuit_control(enc) ==
    enc \o <<Measure(0, 0), Measure(1, 1)>>

\* run_benchmarks calls simulation with do_reset = False
CircuitWith(pr, st, enc) ==
    CASE pr = "DD8" /\ st = "mid" -> DD8_circuit_mid_circuit(enc)
      [] pr = "DD8" /\ st = "deferred" -> DD8_circuit_deferred(enc)
      [] pr = "DD8" /\ st = "control" -> DD8_circuit_control(enc)
      [] pr = "HW8" /\ st = "mid" -> HW8_circuit_mid_circuit(enc)
      [] pr = "HW8" /\ st = "deferred" -> HW8_circuit_deferred(enc)
      [] pr = "HW8" /\ st = "control" -> HW8_circuit_control(enc)
      [] pr = "SIM6" /\ st = "mid" -> simulation(enc, FALSE)
      [] pr = "SIM6" /\ st = "deferred" -> circuit_deferred_measurement(enc)
      [] pr = "SIM6" /\ st = "control" -> SIM6_circuit_control(enc)
      [] pr = "HW6" /\ st = "mid" -> HW6_circuit_mid_circuit(enc)
      [] pr = "HW6" /\ st = "deferred" -> HW6_circuit_deferred(enc)
      [] pr = "HW6" /\ st = "control" -> HW6_circuit_control(enc)

\* the 8-data programs encode with the doubled form, the 6-data ones with GHZ
NativeEncoding(pr) ==
    IF pr \in {"DD8", "HW8"}
    THEN encode_dfs_logical_zero(NumData(pr))
    ELSE encode_logical_zero(NumData(pr))

\* the other construction of the logical zero, over the same data register
OtherEncoding(pr) ==
    IF pr \in {"DD8", "HW8"}
    THEN encode_logical_zero(NumData(pr))
    ELSE encode_dfs_logical_zero(NumData(pr))

Circuits ==
    [pr \in Programs |-> [st \in Strategies |-> CircuitWith(pr, st, NativeEncoding(pr))]]

qc == Circuits[prog][strat]

(***************************************************************************)
(* Stabilizer tableau over qubits 0..nq-1.  Rows 1..nq are destabilizers,  *)
(* rows nq+1..2nq stabilizers; a row is the Pauli (-1)^r X^x Z^z with x, z *)
(* the sets of qubits carrying an X, a Z factor.                           *)
(***************************************************************************)
InitTableau(nq) ==
    [i \in 1..(2 * nq) |->
        IF i <= nq THEN [x |-> {i - 1}, z |-> {}, r |-> 0]
        ELSE [x |-> {}, z |-> {i - nq - 1}, r |-> 0]]

Flip(S, q) == IF q \in S THEN S \ {q} ELSE S \cup {q}
Xor(r, cond) == IF cond THEN 1 - r ELSE r

RowH(row, a) ==
    [x |-> (row.x \ {a}) \cup (IF a \in row.z THEN {a} ELSE {}),
     z |-> (row.z \ {a}) \cup (IF a \in row.x THEN {a} ELSE {}),
     r |-> Xor(row.r, a \in row.x /\ a \in row.z)]

RowCX(row, a, b) ==
    [x |-> IF a \in row.x THEN Flip(row.x, b) ELSE row.x,
     z |-> IF b \in row.z THEN Flip(row.z, a) ELSE row.z,
     r |-> Xor(row.r, a \in row.x /\ b \in row.z
                        /\ ((b \in row.x) <=> (a \in row.z)))]

RowX(row, a) == [row EXCEPT !.r = Xor(row.r, a \in row.z)]
RowZ(row, a) == [row EXCEPT !.r = Xor(row.r, a \in row.x)]
RowY(row, a) == [row EXCEPT !.r = Xor(row.r, (a \in row.x) # (a \in row.z))]

\* a single-qubit Pauli letter applied to qubit a
RowPauli(row, letter, a) ==
    CASE letter = "X" -> RowX(row, a)
      [] letter = "Y" -> RowY(row, a)
      [] letter = "Z" -> RowZ(row, a)
      [] OTHER -> row

ApplyGate(t, op) ==
    CASE op.kind = "h" -> [i \in DOMAIN t |-> RowH(t[i], op.a)]
      [] op.kind = "x" -> [i \in DOMAIN t |-> RowX(t[i], op.a)]
      [] op.kind = "y" -> [i \in DOMAIN t |-> RowY(t[i], op.a)]
      [] op.kind = "z" -> [i \in DOMAIN t |-> RowZ(t[i], op.a)]
      [] op.kind = "cx" -> [i \in DOMAIN t |-> RowCX(t[i], op.a, op.b)]
      [] OTHER -> t

\* exponent of i picked up when the Pauli of row s is multiplied into row h
PhaseSum(h, s) ==
    LET yy == s.x \cap s.z
        xx == s.x \ s.z
        zz == s.z \ s.x
        plus == (yy \cap (h.z \ h.x)) \cup (xx \cap (h.z \cap h.x))
                    \cup (zz \cap (h.x \ h.z))
        minus == (yy \cap (h.x \ h.z)) \cup (xx \cap (h.z \ h.x))
                    \cup (zz \cap (h.x \cap h.z))
    IN  2 * h.r + 2 * s.r + Cardinality(plus) - Cardinality(minus)

RowSum(h, s) ==
    [x |-> (h.x \ s.x) \cup (s.x \ h.x),
     z |-> (h.z \ s.z) \cup (s.z \ h.z),
     r |-> IF PhaseSum(h, s) % 4 = 0 THEN 0 ELSE 1]

RECURSIVE RowSumAll(_, _, _)
RowSumAll(t, acc, rows) ==
    IF rows = {} THEN acc
    ELSE LET i == CHOOSE j \in rows : \A k \in rows : j <= k
         IN  RowSumAll(t, RowSum(acc, t[i]), rows \ {i})

\* the results of measuring qubit a in the computational basis:
\* the set of [tab, bit] the measurement can leave behind
MeasureResults(t, a) ==
    LET nq == Len(t) \div 2
        anti == {i \in (nq + 1)..(2 * nq) : a \in t[i].x}
    IN  IF anti # {}
        THEN LET pr == CHOOSE i \in anti : \A k \in anti : i <= k
             IN  {[tab |-> [i \in DOMAIN t |->
                              IF i = pr THEN [x |-> {}, z |-> {a}, r |-> bit]
                              ELSE IF i = pr - nq THEN t[pr]
                              ELSE IF a \in t[i].x THEN RowSum(t[i], t[pr])
                              ELSE t[i]],
                    bit |-> bit] : bit \in {0, 1}}
        ELSE LET scratch == RowSumAll(t, [x |-> {}, z |-> {}, r |-> 0],
                                      {i + nq : i \in {j \in 1..nq : a \in t[j].x}})
             IN  {[tab |-> t, bit |-> scratch.r]}

\* reset = measure, then flip the qubit back to 0 when it was found in 1
ResetResults(t, a) ==
    {IF m.bit = 1 THEN ApplyGate(m.tab, X(a)) ELSE m.tab : m \in MeasureResults(t, a)}

(***************************************************************************)
(* Noise-free execution of one trial of a strategy circuit: the operations *)
(* are processed strictly in order, starting from all qubits in 0.         *)
(***************************************************************************)
GateKinds == {"h", "x", "y", "z", "cx"}
NoBits == [i \in 0..1 |-> 0]
Idle == [at |-> "idle"]
NoRate == [st |-> "none"]

Done == pc = Len(qc)
NextOp == qc[pc + 1]
LastOp == qc[pc]

Init ==
    /\ prog \in Programs
    /\ strat \in Strategies
    /\ pc = 0
    /\ tab = InitTableau(NumQubits(prog))
    /\ c = NoBits
    /\ p = 0
    /\ faults = 0
    /\ lastDraw = <<>>
    /\ counts = <<>>
    /\ rate = NoRate
    /\ sweep = Idle

Gate ==
    /\ ~Done
    /\ NextOp.kind \in GateKinds
    /\ tab' = ApplyGate(tab, NextOp)
    /\ pc' = pc + 1
    /\ UNCHANGED <<prog, strat, c, p, faults, lastDraw, counts, rate, sweep>>

BarrierStep ==
    /\ ~Done
    /\ NextOp.kind = "barrier"
    /\ pc' = pc + 1
    /\ lastDraw' = <<>>
    /\ UNCHANGED <<prog, strat, tab, c, p, faults, counts, rate, sweep>>

MeasureStep ==
    /\ ~Done
    /\ NextOp.kind = "measure"
    /\ \E m \in MeasureResults(tab, NextOp.a) :
          /\ tab' = m.tab
          /\ c' = [c EXCEPT ![NextOp.b] = m.bit]
    /\ pc' = pc + 1
    /\ lastDraw' = <<>>
    /\ UNCHANGED <<prog, strat, p, faults, counts, rate, sweep>>

ResetStep ==
    /\ ~Done
    /\ NextOp.kind = "reset"
    /\ tab' \in ResetResults(tab, NextOp.a)
    /\ pc' = pc + 1
    /\ lastDraw' = <<>>
    /\ UNCHANGED <<prog, strat, c, p, faults, counts, rate, sweep>>

Next == Gate \/ BarrierStep \/ MeasureStep \/ ResetStep

Spec == Init /\ [][Next]_vars

\* the classical register reads "00"
Bits00 == c[0] = 0 /\ c[1] = 0

\* the tableau t written out row by row (TLC keeps the result of a gate as
\* an unevaluated expression over the tableau before it; a long chain of
\* gates applied inside one operator is written out after every gate)
RECURSIVE EvaluatedRows(_, _)
EvaluatedRows(t, n) ==
    IF n = 0 THEN <<>>
    ELSE Append(EvaluatedRows(t, n - 1),
                [x |-> {q \in 0..(Len(t) \div 2 - 1) : q \in t[n].x},
                 z |-> {q \in 0..(Len(t) \div 2 - 1) : q \in t[n].z},
                 r |-> t[n].r])

Evaluated(t) == EvaluatedRows(t, Len(t))

\* the configurations [tab, c] one noise-free operation leaves, from those of S
StepConfigs(S, op) ==
    CASE op.kind \in GateKinds ->
            {[tab |-> Evaluated(ApplyGate(s.tab, op)), c |-> s.c] : s \in S}
      [] op.kind = "measure" ->
            UNION {{[tab |-> m.tab, c |-> [s.c EXCEPT ![op.b] = m.bit]] :
                       m \in MeasureResults(s.tab, op.a)} : s \in S}
      [] op.kind = "reset" ->
            UNION {{[tab |-> t2, c |-> s.c] : t2 \in ResetResults(s.tab, op.a)} : s \in S}
      [] OTHER -> S

\* the configurations the noise-free execution of ops[lo..hi] leaves: the
\* first half is run to its end (a run always leaves a configuration) before
\* the second half starts from what it left
RECURSIVE RunConfigs(_, _, _, _)
RunConfigs(S, ops, lo, hi) ==
    IF lo > hi THEN S
    ELSE IF lo = hi THEN StepConfigs(S, ops[lo])
    ELSE LET mid == (lo + hi) \div 2
             first == RunConfigs(S, ops, lo, mid)
         IN  IF first = {} THEN {} ELSE RunConfigs(first, ops, mid + 1, hi)

\* the outcomes (values of the classical register) that the noise-free
\* execution of ops[k..] can end with, from tableau t and register b
Outcomes(t, b, ops, k) ==
    {s.c : s \in RunConfigs({[tab |-> t, c |-> b]}, ops, k, Len(ops))}

OutcomeSet(pr, ops) == Outcomes(InitTableau(NumQubits(pr)), NoBits, ops, 1)

DataQubits == 0..(NumData(prog) - 1)
A0 == Anc(prog, 0)
A1 == Anc(prog, 1)

(***************************************************************************)
(* Claims about the noise-free execution                                   *)
(***************************************************************************)

\* C1 (as claimed): in the noise-free run of the mid-circuit and deferred
\* circuits of the 8-data simulation the classical bits are never anything
\* but "00".
C1_Claim_DD8AlwaysZeroSyndrome ==
    (prog = "DD8" /\ strat \in {"mid", "deferred"}) => Bits00

\* C2: in the noise-free run of the mid-circuit and deferred circuits of the
\* 6-data simulation (GHZ encoding) the classical bits are "00" throughout,
\* so every trial ends with "00".
C2_SIM6AlwaysZeroSyndrome ==
    (prog = "SIM6" /\ strat \in {"mid", "deferred"}) => Bits00

C2_Witness ==
    /\ prog = "SIM6" /\ strat = "mid" /\ Done /\ Bits00
    /\ \E i \in 1..pc : qc[i] = Measure(A1, 1)

\* C3 (as claimed): the noise-free run of every control circuit that
\* measures data qubits directly leaves the classical bits at "00".
C3_Claim_ControlAlwaysZero ==
    (strat = "control" /\ prog \in {"DD8", "HW8", "HW6"}) => Bits00

\* C4 (as claimed): over the same registers and followed by the same
\* measurement sequence, the GHZ encoding and the doubled encoding have the
\* same set of reachable outcomes.
C4_Claim_EncodingsEquivalent ==
    Done =>
        LET other == OutcomeSet(prog, CircuitWith(prog, strat, OtherEncoding(prog)))
            own == OutcomeSet(prog, CircuitWith(prog, strat, NativeEncoding(prog)))
        IN  c \in other /\ other = own

\* C6 (as claimed): no operation executed in a control circuit acts on an
\* ancilla qubit; the measurements are of data qubits.
C6_Claim_ControlTouchesNoAncilla ==
    (strat = "control" /\ pc > 0) => OpQubits(LastOp) \subseteq DataQubits

\* C10: in the executed operations of every mid-circuit strategy, the
\* stabilizer fragment runs in this order: a CNOT from every data qubit into
\* ancilla 0, measure ancilla 0 into bit 0, reset it at once; then per data
\* qubit H, CNOT into ancilla 1, H; measure ancilla 1 into bit 1, reset it at
\* once.  The Z-parity measurement precedes every X-parity gate and each
\* ancilla is measured at most once (exactly once when the circuit is done).
C10_StabilizerOrder ==
    strat = "mid" =>
        /\ \A i \in 1..pc :
              /\ (qc[i].kind = "measure" /\ qc[i].a = A0) =>
                    /\ qc[i].b = 0
                    /\ {qc[j].a : j \in {k \in 1..(i - 1) :
                                    qc[k].kind = "cx" /\ qc[k].b = A0}} = DataQubits
                    /\ \A j \in 1..(i - 1) : ~(qc[j].kind = "cx" /\ qc[j].b = A1)
              /\ (qc[i].kind = "cx" /\ qc[i].b = A1) =>
                    /\ \E j \in 1..(i - 2) : qc[j] = Measure(A0, 0) /\ qc[j + 1] = Reset(A0)
                    /\ qc[i - 1] = H(qc[i].a)
                    /\ (i < pc => qc[i + 1] = H(qc[i].a))
              /\ (qc[i].kind = "measure" /\ qc[i].a = A1) =>
                    /\ qc[i].b = 1
                    /\ {qc[j].a : j \in {k \in 1..(i - 1) :
                                    qc[k].kind = "cx" /\ qc[k].b = A1}} = DataQubits
              /\ (qc[i].kind = "measure" /\ i < pc) => qc[i + 1] = Reset(qc[i].a)
              /\ qc[i].kind = "measure" => qc[i].a \in {A0, A1}
        /\ \A a \in {A0, A1} :
              /\ Cardinality({i \in 1..pc : qc[i].kind = "measure" /\ qc[i].a = a}) <= 1
              /\ Done => \E i \in 1..pc : qc[i].kind = "measure" /\ qc[i].a = a

C10_Witness ==
    /\ strat = "mid" /\ Done
    /\ \E i \in 1..(pc - 1) : qc[i] = Measure(A1, 1) /\ qc[i + 1] = Reset(A1)

(***************************************************************************)
(* Noise channel model.  Probabilities are integers in units of 1/Den      *)
(* (1/Den^2 for the product channel); an error term is a sequence of Pauli *)
(* letters, one per qubit of the operation it follows.                     *)
(***************************************************************************)
Den == 3000
PLeakDefault == 30
NoiseVals == <<0, 30, 60, 150>>
MaxFaults == 1

Letters == {"I", "X", "Y", "Z"}

\* pauli_error over one qubit
pauli_error1(probs) ==
    [den |-> Den, terms |-> [t \in {<<l>> : l \in DOMAIN probs} |-> probs[t[1]]]]

\* a.tensor(b): independent draws of a and of b on the two qubits
tensor(a, b) ==
    [den |-> a.den * b.den,
     terms |-> [t \in {u \o v : u \in DOMAIN a.terms, v \in DOMAIN b.terms} |->
                   a.terms[<<t[1]>>] * b.terms[<<t[2]>>]]]

NoChannels == [k \in GateKinds |-> <<>>]

\* the 8-data model with the depolarizing channel on all single-qubit gates
DD8_leakage_noise_model_allGates(pp, p_leak) ==
    LET pauli == pauli_error1([X |-> pp \div 3, Y |-> pp \div 3, Z |-> pp \div 3,
                               I |-> Den - pp])
        leak == pauli_error1([I |-> Den - p_leak, Z |-> p_leak])
    IN  [k \in GateKinds |->
            CASE k = "h" -> <<pauli, leak>>
              [] k = "cx" -> <<tensor(pauli, pauli)>>
              [] OTHER -> <<pauli>>]

\* (8,6,2)_DD.py: pauli and leak on 'h', pauli (x) pauli on 'cx'
DD8_leakage_noise_model(pp, p_leak) ==
    LET pauli == pauli_error1([X |-> pp \div 3, Y |-> pp \div 3, Z |-> pp \div 3,
                               I |-> Den - pp])
        leak == pauli_error1([I |-> Den - p_leak, Z |-> p_leak])
    IN  [NoChannels EXCEPT !["h"] = <<pauli, leak>>,
                           !["cx"] = <<tensor(pauli, pauli)>>]

\* (6,4,2)_sim_dd.py: single_leak on 'h', correlated two_leak on 'cx'
SIM6_leakage_noise_model(pp) ==
    LET single_leak == pauli_error1([X |-> pp \div 2, Z |-> pp \div 2, I |-> Den - pp])
        two_leak == [den |-> Den,
                     terms |-> [t \in {<<"X", "X">>, <<"Z", "Z">>, <<"I", "I">>} |->
                                  IF t[1] = "I" THEN Den - pp ELSE pp \div 2]]
    IN  [NoChannels EXCEPT !["h"] = <<single_leak>>, !["cx"] = <<two_leak>>]

\* the noise model the circuit functions hand to the simulator: run_benchmarks
\* passes p only, so the 8-data model is built with the default p_leak
NoiseModel(pr, pp) ==
    CASE pr = "DD8" -> DD8_leakage_noise_model(pp, PLeakDefault)
      [] pr = "SIM6" -> SIM6_leakage_noise_model(pp)
      [] OTHER -> NoChannels

Support(ch) == {t \in DOMAIN ch.terms : ch.terms[t] > 0}
NonIdentity(t) == \E j \in DOMAIN t : t[j] # "I"

\* one term per registered channel, each from the support of its channel
RECURSIVE Draws(_)
Draws(chs) ==
    IF chs = <<>> THEN {<<>>}
    ELSE {<<t>> \o d : t \in Support(Head(chs)), d \in Draws(Tail(chs))}

NumFaults(d) == Cardinality({i \in DOMAIN d : NonIdentity(d[i])})

ApplyTerm(t, op, term) ==
    [i \in DOMAIN t |->
        IF Len(term) = 1 THEN RowPauli(t[i], term[1], op.a)
        ELSE RowPauli(RowPauli(t[i], term[1], op.a), term[2], op.b)]

RECURSIVE ApplyDraws(_, _, _, _)
ApplyDraws(t, op, d, k) ==
    IF k > Len(d) THEN t ELSE ApplyDraws(ApplyTerm(t, op, d[k]), op, d, k + 1)

(***************************************************************************)
(* Execution of one trial under the noise model: the ideal effect of each  *)
(* gate, then one draw from every channel registered for its kind.         *)
(***************************************************************************)
\* A trial is followed for every circuit of the two simulator programs at
\* p = 0, and at every level of the sweep for the 6-data circuits and the
\* 8-data control circuit; at most MaxFaults non-identity error terms are
\* drawn in one trial.
NoiseTable ==
    [pr \in {"DD8", "SIM6"} |->
        [pp \in {NoiseVals[i] : i \in DOMAIN NoiseVals} |-> NoiseModel(pr, pp)]]

\* the noise model of the running trial
noise_model == NoiseTable[prog][p]

InitNoise ==
    /\ prog \in {"DD8", "SIM6"}
    /\ strat \in Strategies
    /\ p \in {NoiseVals[i] : i \in DOMAIN NoiseVals}
    /\ (prog = "DD8" /\ strat # "control") => p = 0
    /\ pc = 0
    /\ tab = InitTableau(NumQubits(prog))
    /\ c = NoBits
    /\ faults = 0
    /\ lastDraw = <<>>
    /\ counts = <<>>
    /\ rate = NoRate
    /\ sweep = Idle

NoisyGate ==
    /\ ~Done
    /\ NextOp.kind \in GateKinds
    /\ \E d \in Draws(noise_model[NextOp.kind]) :
          /\ faults + NumFaults(d) <= MaxFaults
          /\ tab' = ApplyDraws(ApplyGate(tab, NextOp), NextOp, d, 1)
          /\ faults' = faults + NumFaults(d)
          /\ lastDraw' = d
    /\ pc' = pc + 1
    /\ UNCHANGED <<prog, strat, c, p, counts, rate, sweep>>

NextNoise == NoisyGate \/ BarrierStep \/ MeasureStep \/ ResetStep

SpecNoise == InitNoise /\ [][NextNoise]_vars

\* C7 (as claimed): in a run at noise level p = 0 every non-identity error
\* term of every channel of the noise model the simulator executes under
\* has probability 0, and so no error is ever drawn.
C7_Claim_NoNoiseAtZero ==
    (p = 0 /\ pc > 0) =>
        /\ \A k \in GateKinds : \A i \in 1..Len(noise_model[k]) :
              \A t \in DOMAIN noise_model[k][i].terms :
                  NonIdentity(t) => noise_model[k][i].terms[t] = 0
        /\ faults = 0

MaxCount == 2
Bitstrings == {"00", "01", "10", "11"}

Tables == UNION {[K -> 0..MaxCount] : K \in SUBSET Bitstrings}

RECURSIVE SumOver(_, _)
SumOver(t, K) ==
    IF K = {} THEN 0
    ELSE LET k == CHOOSE x \in K : TRUE IN t[k] + SumOver(t, K \ {k})

\* sum(counts.values())
Total(t) == SumOver(t, DOMAIN t)

\* counts.get('00', 0)
Get00(t) == IF "00" \in DOMAIN t THEN t["00"] ELSE 0

RECURSIVE GCD(_, _)
GCD(a, b) == IF b = 0 THEN a ELSE GCD(b, a % b)

\* the value of valid / total, total > 0
Quotient(valid, total) ==
    [st |-> "returned", num |-> valid \div GCD(valid, total),
     den |-> total \div GCD(valid, total)]

Zero == [st |-> "returned", num |-> 0, den |-> 1]
ZeroDivisionError == [st |-> "raised", error |-> "ZeroDivisionError"]

DD8_postselection_rate(t) ==
    IF Total(t) > 0 THEN Quotient(Get00(t), Total(t)) ELSE Zero

HW8_postselection_rate(t) ==
    IF Total(t) > 0 THEN Quotient(Get00(t), Total(t)) ELSE Zero

HW6_postselection_rate(t) ==
    IF Total(t) > 0 THEN Quotient(Get00(t), Total(t)) ELSE Zero

\* (6,4,2)_sim_dd.py divides without a guard
SIM6_postselection_rate(t) ==
    IF Total(t) = 0 THEN ZeroDivisionError ELSE Quotient(Get00(t), Total(t))

postselection_rate(pr, t) ==
    CASE pr = "DD8" -> DD8_postselection_rate(t)
      [] pr = "HW8" -> HW8_postselection_rate(t)
      [] pr = "HW6" -> HW6_postselection_rate(t)
      [] pr = "SIM6" -> SIM6_postselection_rate(t)

InitRate ==
    /\ prog \in Programs
    /\ counts \in Tables
    /\ rate = NoRate
    /\ strat = "mid"
    /\ pc = 0
    /\ tab = <<>>
    /\ c = NoBits
    /\ p = 0
    /\ faults = 0
    /\ lastDraw = <<>>
    /\ sweep = Idle

CallRate ==
    /\ rate = NoRate
    /\ rate' = postselection_rate(prog, counts)
    /\ UNCHANGED <<prog, strat, pc, tab, c, p, faults, lastDraw, counts, sweep>>

NextRate == CallRate

SpecRate == InitRate /\ [][NextRate]_vars

\* C5 (as claimed): for every outcome table, the empty one and the all-zero
\* ones included, every postselection_rate returns count("00") / total when
\* total > 0 and 0 when total = 0, and never raises.
C5_Claim_RateTotal ==
    rate.st # "none" =>
        /\ rate.st = "returned"
        /\ IF Total(counts) > 0
           THEN rate.num * Total(counts) = rate.den * Get00(counts)
           ELSE rate.num = 0

(***************************************************************************)
(* Benchmark driver.  run_benchmarks calls the backend once per point      *)
(* (strategy, noise level); the backend (simulator or device) answers with *)
(* an outcome table of the requested shots, or raises.  No call is made    *)
(* under an exception handler.                                             *)
(***************************************************************************)
MaxSweep == 2
MaxShots == 2

\* the order in which one pass of the loop body runs the strategies
StrategyOrder(pr) ==
    IF pr = "SIM6" THEN <<"mid", "control", "deferred">>
    ELSE <<"mid", "deferred", "control">>

\* the points of a sweep in call order; the hardware drivers make one pass
\* over their three circuits, at no noise level (level -1)
Points(pr, noise_vals) ==
    LET levels == IF pr \in {"DD8", "SIM6"} THEN noise_vals ELSE <<-1>>
    IN  Flatten([i \in 1..Len(levels) |->
                    [k \in 1..3 |-> [strategy |-> StrategyOrder(pr)[k],
                                     level |-> levels[i]]]], Len(levels))

\* what get_counts() can return for a run of shots trials
BackendTables(shots) ==
    {t \in UNION {[K -> 1..shots] : K \in SUBSET Bitstrings} : Total(t) = shots}

NoResults == [mid |-> <<>>, deferred |-> <<>>, control |-> <<>>]

InitSweep ==
    /\ prog \in Programs
    /\ \E n \in 0..MaxSweep, shots \in 1..MaxShots :
          sweep = [at |-> "running",
                   points |-> Points(prog, SubSeq(NoiseVals, 1, n)),
                   shots |-> shots,
                   next |-> 1,
                   results |-> NoResults,
                   failed |-> {}]
    /\ strat = "mid"
    /\ pc = 0
    /\ tab = <<>>
    /\ c = NoBits
    /\ p = 0
    /\ faults = 0
    /\ lastDraw = <<>>
    /\ counts = <<>>
    /\ rate = NoRate

\* one call of a circuit function that returns, and the rate appended
SweepCall ==
    /\ sweep.at = "running"
    /\ sweep.next <= Len(sweep.points)
    /\ LET pt == sweep.points[sweep.next]
       IN  \E t \in BackendTables(sweep.shots) :
              LET r == postselection_rate(prog, t)
              IN  /\ counts' = t
                  /\ rate' = r
                  /\ strat' = pt.strategy
                  /\ sweep' =
                        IF r.st = "raised"
                        THEN [sweep EXCEPT !.at = "raised", !.results = NoResults,
                                           !.failed = {sweep.next}]
                        ELSE [sweep EXCEPT !.next = sweep.next + 1,
                                           !.results[pt.strategy] =
                                               Append(sweep.results[pt.strategy], r)]
    /\ UNCHANGED <<prog, pc, tab, c, p, faults, lastDraw>>

\* one call of a circuit function that raises: the exception leaves
\* run_benchmarks, whose lists are lost with its frame
SweepFail ==
    /\ sweep.at = "running"
    /\ sweep.next <= Len(sweep.points)
    /\ strat' = sweep.points[sweep.next].strategy
    /\ sweep' = [sweep EXCEPT !.at = "raised", !.results = NoResults,
                              !.failed = {sweep.next}]
    /\ UNCHANGED <<prog, pc, tab, c, p, faults, lastDraw, counts, rate>>

SweepReturn ==
    /\ sweep.at = "running"
    /\ sweep.next > Len(sweep.points)
    /\ sweep' = [sweep EXCEPT !.at = "returned"]
    /\ UNCHANGED <<prog, strat, pc, tab, c, p, faults, lastDraw, counts, rate>>

NextSweep == SweepCall \/ SweepFail \/ SweepReturn

SpecSweep == InitSweep /\ [][NextSweep]_vars

\* C9 (as claimed): a call that raises aborts its own point only: the sweep
\* is not aborted, it goes on to the remaining points, and the rates of the
\* points that did not fail are kept and returned.
C9_Claim_FailureIsolated ==
    sweep.failed # {} =>
        /\ sweep.at \in {"running", "returned"}
        /\ sweep.at = "returned" =>
              \A st \in Strategies :
                  Len(sweep.results[st]) =
                      Cardinality({i \in 1..Len(sweep.points) :
                                      /\ i \notin sweep.failed
                                      /\ sweep.points[i].strategy = st})

(***************************************************************************)
(* Dynamical decoupling and leakage elimination in the 8-data simulation   *)
(***************************************************************************)
\* the operations dynamical_decoupling and then leakage_elimination_operation
\* append, as every 8-data strategy circuit calls them
DDLEOFragment == dynamical_decoupling(8) \o leakage_elimination_operation(8)

\* a DD+LEO fragment starts at operation i of ops
FragmentAt(ops, i) ==
    /\ i + Len(DDLEOFragment) - 1 <= Len(ops)
    /\ SubSeq(ops, i, i + Len(DDLEOFragment) - 1) = DDLEOFragment

\* ops[i..] with every DD+LEO fragment removed
RECURSIVE StripFrom(_, _)
StripFrom(ops, i) ==
    IF i > Len(ops) THEN <<>>
    ELSE IF FragmentAt(ops, i) THEN StripFrom(ops, i + Len(DDLEOFragment))
    ELSE <<ops[i]>> \o StripFrom(ops, i + 1)

\* the tableaux that executing op under the noise model of the trial can
\* leave, from a tableau of T: the gate, then a draw from each of its channels
FragmentStep(T, op) ==
    IF op.kind \notin GateKinds THEN T
    ELSE UNION {{ApplyDraws(ApplyGate(t, op), op, d, 1) :
                    d \in Draws(noise_model[op.kind])} : t \in T}

\* the tableaux that executing ops[lo..hi] under the noise model of the trial
\* can leave, from a tableau of T
RECURSIVE FragmentRun(_, _, _, _)
FragmentRun(T, ops, lo, hi) ==
    IF lo > hi THEN T
    ELSE IF lo = hi THEN FragmentStep(T, ops[lo])
    ELSE LET mid == (lo + hi) \div 2
             first == FragmentRun(T, ops, lo, mid)
         IN  IF first = {} THEN {} ELSE FragmentRun(first, ops, mid + 1, hi)

FragmentResults(t, ops) == FragmentRun({t}, ops, 1, Len(ops))

\* the trials of the 8-data simulation alone
InitDD8 == InitNoise /\ prog = "DD8"

SpecDD8 == InitDD8 /\ [][NextNoise]_vars

\* C11: in the 8-data simulation, at every noise level of the sweep,
\* (a) the noise model has no channel on x, y or z, and an executed X, Y or Z
\*     is followed by no draw;
\* (b) from every state a trial reaches at the start of a DD+LEO fragment,
\*     executing the fragment under the noise model leaves exactly the
\*     tableau it started from (X, then Y, then Z on each data qubit is the
\*     identity on the state), so the trial goes on as if the fragment were
\*     not there;
\* (c) the circuit and the circuit with every DD+LEO fragment removed have
\*     the same set of reachable outcomes.
C11_DDLEOIsIdentity ==
    prog = "DD8" =>
        /\ \A k \in {"x", "y", "z"} : noise_model[k] = <<>>
        /\ (pc > 0 /\ LastOp.kind \in {"x", "y", "z"}) => lastDraw = <<>>
        /\ (~Done /\ NextOp.kind = "x" /\ FragmentAt(qc, pc + 1)) =>
              FragmentResults(tab, DDLEOFragment) = {tab}
        /\ pc = 0 =>
              /\ \E i \in 1..Len(qc) : FragmentAt(qc, i)
              /\ \A i \in DOMAIN StripFrom(qc, 1) :
                    StripFrom(qc, 1)[i].kind \notin {"x", "y", "z"}
              /\ OutcomeSet(prog, StripFrom(qc, 1)) = OutcomeSet(prog, qc)

\* a trial in which an error was drawn has just executed a whole fragment
C11_Witness ==
    /\ prog = "DD8" /\ faults = 1
    /\ pc >= Len(DDLEOFragment)
    /\ FragmentAt(qc, pc - Len(DDLEOFragment) + 1)
    /\ \E i \in 1..pc : qc[i].kind = "measure"

====
